---------------------------- MODULE Spec2Model ----------------------------
(***************************************************************************)
(* Model of src/src/numbers.rs: mixed-radix / base-q digit vectors, the    *)
(* base-q carry adder, the CRT codec, the modular inverse and factoring    *)
(* over the fixed prime table.                                             *)
(*                                                                         *)
(* Every function of the file is pure, so the state machine is a call      *)
(* harness: Init draws a function name and its arguments, one action per   *)
(* function applies it and stores what the call produced (a value or a     *)
(* panic) in ret.                                                          *)
(*                                                                         *)
(* TLC's integers are 32 bits wide, so the u128 word of the source is      *)
(* modelled as a word of WordBits bits: every place where the source says  *)
(* 128 (digits_per_u128, overflowing_mul, to_u128) uses WordBits.          *)
(***************************************************************************)
EXTENDS Integers, Sequences, FiniteSets, TLC

VARIABLES pc, fn, args, ret

vars == <<pc, fn, args, ret>>

(***************************************************************************)
(* Bounds of the model.                                                    *)
(***************************************************************************)
\* width of the machine word standing for u128
WordBits == 8
\* largest CRT modulus product(ps) drawn
MaxCrtModulus == 210
\* largest a and m drawn for inv_ref(a, m)
MaxInvA == 40
MaxInvM == 30
\* largest modulus of a drawn modulus sequence, and largest product of one
MaxModulus == 6
MaxRadixProduct == 64
\* a modulus above 255, for the two-byte digits of the big-integer variant
WideModulus == 300
\* largest value handed to u16_from_bigint
MaxBigDigit == 600
\* largest base of the digit vectors handed to from_base_q
MaxFromBase == 7
\* largest base and largest q^n of the drawn additions
MaxAddBase == 7
MaxAddModulus == 64
\* largest modulus the tables are asked for
MaxTableModulus == 115
\* largest base and largest count of maximal digits summed
MaxCarryBase == 20
MaxCarryCount == 200
\* largest width asked of the modulus search
MaxWidthBits == 127
\* largest base and largest length of the vectors added in place repeatedly
MaxAddEqBase == 3
MaxAddEqLen == 3

\* the largest base the tests draw: 2 + (rng.gen_u16() % 111)
MaxTestBase == 112

\* u16 holds values below 2^16
U16 == 65536

(***************************************************************************)
(* Arithmetic helpers.                                                     *)
(***************************************************************************)
RECURSIVE Pow(_, _)
\* num_traits::pow::pow / u128::pow
Pow(b, e) == IF e = 0 THEN 1 ELSE b * Pow(b, e - 1)

\* 2^WordBits: one more than the largest value of the word
WordLimit == Pow(2, WordBits)

Range(s) == {s[i] : i \in 1..Len(s)}

Min(a, b) == IF a < b THEN a ELSE b

RECURSIVE SeqProduct(_)
\* product(xs): fold of the multiplication, 1 for the empty list
SeqProduct(xs) == IF xs = <<>> THEN 1 ELSE Head(xs) * SeqProduct(Tail(xs))

\* a call's outcome: a returned value, or a panic (failed assertion, unwrap of
\* None, index out of bounds, division by zero)
Ok(v) == [panic |-> FALSE, val |-> v]
Panic == [panic |-> TRUE]

\* the remainder of Rust's % on signed integers: sign of the dividend
TruncRem(a, m) == IF a >= 0 THEN a % m ELSE 0 - ((0 - a) % m)

(***************************************************************************)
(* Prime table.                                                            *)
(***************************************************************************)
PRIMES ==
  << 2, 3, 5, 7, 11, 13, 17, 19, 23, 29, 31, 37, 41, 43, 47, 53, 59, 61, 67,
     71, 73, 79, 83, 89, 97, 101, 103, 107, 109 >>

(***************************************************************************)
(* Modular inverse.                                                        *)
(***************************************************************************)
RECURSIVE InvLoop(_, _, _, _)
\* the while loop of inv_ref: (a, b) <- (b, a % b), (x0, x1) <- (x1 - q*x0, x0)
InvLoop(a, b, x0, x1) ==
  IF a > 1
  THEN IF b = 0
       THEN Panic
       ELSE InvLoop(b, a % b, x1 - (a \div b) * x0, x0)
  ELSE Ok(x1)

\* inv_ref with the final normalisation dropped
inv_ref_NoNormalise(inp_a, inp_b) ==
  IF inp_b = 1 THEN Ok(1) ELSE InvLoop(inp_a, inp_b, 0, 1)

inv_ref(inp_a, inp_b) ==
  IF inp_b = 1
  THEN Ok(1)
  ELSE LET r == InvLoop(inp_a, inp_b, 0, 1) IN
       IF r.panic THEN Panic
       ELSE IF r.val < 0 THEN Ok(r.val + inp_b) ELSE Ok(r.val)

(***************************************************************************)
(* CRT codec.                                                              *)
(***************************************************************************)
\* crt with the residue taken modulo the next prime of the list
crt_ShiftedPrime(ps, x) ==
  [i \in 1..Len(ps) |-> (x % ps[IF i < Len(ps) THEN i + 1 ELSE i]) % U16]

crt(ps, x) == [i \in 1..Len(ps) |-> (x % ps[i]) % U16]

RECURSIVE CrtInvLoop(_, _, _, _, _)
\* the zip loop of crt_inv, from pair i on, with accumulator acc
CrtInvLoop(ps, xs, M, i, acc) ==
  IF i > Len(ps) \/ i > Len(xs)
  THEN Ok(acc)
  ELSE LET p == ps[i]
           q == M \div p
           v == inv_ref(q, p)
       IN  IF v.panic THEN Panic
           ELSE CrtInvLoop(ps, xs, M, i + 1,
                           TruncRem(acc + xs[i] * v.val * q, M))

crt_inv(ps, xs) ==
  LET r == CrtInvLoop(ps, xs, SeqProduct(ps), 1, 0) IN
  IF r.panic THEN Panic
  ELSE IF r.val < 0 \/ r.val >= WordLimit THEN Panic ELSE Ok(r.val)

(***************************************************************************)
(* Mixed-radix codec, fixed width.                                         *)
(***************************************************************************)
\* the least c with 2^c >= q: (q as f64).log2().ceil()
CeilLog2(q) == CHOOSE c \in 0..16 : Pow(2, c) >= q /\ (c = 0 \/ Pow(2, c - 1) < q)

\* digits_per_u128: floor(WordBits / ceil(log2 modulus))
digits_per_u128(modulus) == WordBits \div CeilLog2(modulus)

\* std::iter::repeat(q).take(n)
Repeat(q, n) == [i \in 1..n |-> q]

RECURSIVE MixedRadixLoop(_, _, _, _)
\* the for loop of as_mixed_radix from position i on, ds being pushed so far
MixedRadixLoop(x, ms, i, ds) ==
  IF i > Len(ms) THEN ds
  ELSE IF x >= ms[i]
       THEN LET d == x % ms[i] IN
            MixedRadixLoop((x - d) \div ms[i], ms, i + 1, Append(ds, d % U16))
       ELSE Append(ds, x % U16)

\* as_mixed_radix that goes on after the remaining value fell below the modulus
as_mixed_radix_NoBreak(x, ms) ==
  [i \in 1..Len(ms) |-> (x \div SeqProduct(SubSeq(ms, 1, i - 1))) % ms[i]]

as_mixed_radix(x, ms) == MixedRadixLoop(x, ms, 1, <<>>)

\* the padding loop of padded_mixed_radix: push 0 while ds is shorter than ms
PadTo(ds, n) == ds \o [i \in 1..(IF Len(ds) < n THEN n - Len(ds) ELSE 0) |-> 0]

padded_mixed_radix(x, ms) == PadTo(as_mixed_radix(x, ms), Len(ms))

\* as_base_q: asserts x < q^n, then decomposes against n copies of q
as_base_q(x, q) ==
  LET n == digits_per_u128(q) IN
  IF ~(x < Pow(q, n)) THEN Panic ELSE Ok(as_mixed_radix(x, Repeat(q, n)))

padded_base_q(x, q, n) == padded_mixed_radix(x, Repeat(q, n))

padded_base_q_128(x, q) == padded_mixed_radix(x, Repeat(q, digits_per_u128(q)))

RECURSIVE FromBaseQLoop(_, _, _, _, _)
\* the loop of from_base_q over ds reversed: position i down to 1.
\* overflowing_mul reports the overflow and the assertion panics on it; the
\* addition xp + d is a plain +: it panics when the build checks overflow and
\* wraps when it does not.
FromBaseQLoop(ds, q, i, x, checks) ==
  IF i = 0 THEN Ok(x)
  ELSE IF x * q >= WordLimit THEN Panic
       ELSE LET s == x * q + ds[i] IN
            IF s >= WordLimit /\ checks THEN Panic
            ELSE FromBaseQLoop(ds, q, i - 1, s % WordLimit, checks)

\* from_base_q that reads the digits least-significant first
from_base_q_Forward(ds, q, checks) ==
  FromBaseQLoop([i \in 1..Len(ds) |-> ds[Len(ds) + 1 - i]], q, Len(ds), 0, checks)

from_base_q(ds, q, checks) == FromBaseQLoop(ds, q, Len(ds), 0, checks)

(***************************************************************************)
(* Mixed-radix codec, big integers.                                        *)
(***************************************************************************)
RECURSIVE BytesLe(_)
\* the base-256 digits of a positive magnitude, least significant first
BytesLe(v) == IF v = 0 THEN <<>> ELSE <<v % 256>> \o BytesLe(v \div 256)

\* BigInt::to_bytes_le: the magnitude's bytes, the single byte 0 for zero
to_bytes_le(v) == IF v = 0 THEN <<0>> ELSE BytesLe(v)

\* u16_from_bigint: bs[0] + (bs[1] << 16).  bs[1] is out of bounds when the
\* value has one byte.  A shift of a u16 by 16 panics when the build checks
\* overflow; otherwise the shift amount is masked to 16 % 16 = 0.
u16_from_bigint(bi, checks) ==
  LET bs == to_bytes_le(bi) IN
  IF Len(bs) < 2 THEN Panic
  ELSE IF checks THEN Panic
       ELSE Ok((bs[1] + bs[2]) % U16)

RECURSIVE MixedRadixBigintLoop(_, _, _, _, _)
\* the for loop of as_mixed_radix_bigint
MixedRadixBigintLoop(x, ms, i, ds, checks) ==
  IF i > Len(ms) THEN Ok(ds)
  ELSE IF x >= ms[i]
       THEN LET d == x % ms[i]
                w == u16_from_bigint(d, checks)
            IN  IF w.panic THEN Panic
                ELSE MixedRadixBigintLoop((x - d) \div ms[i], ms, i + 1,
                                          Append(ds, w.val), checks)
       ELSE LET w == u16_from_bigint(x, checks) IN
            IF w.panic THEN Panic ELSE Ok(Append(ds, w.val))

as_mixed_radix_bigint(x, ms, checks) == MixedRadixBigintLoop(x, ms, 1, <<>>, checks)

padded_mixed_radix_bigint(x, ms, checks) ==
  LET r == as_mixed_radix_bigint(x, ms, checks) IN
  IF r.panic THEN Panic ELSE Ok(PadTo(r.val, Len(ms)))

(***************************************************************************)
(* Base-q carry adder.                                                     *)
(***************************************************************************)
RECURSIVE AddLoop(_, _, _, _, _)
\* the first loop of base_q_add_eq, over the positions of ys; the pair
\* <<xs, c>> it leaves
AddLoop(xs, ys, q, i, c) ==
  IF i > Len(ys) THEN <<xs, c>>
  ELSE LET s == xs[i] + ys[i] + c IN
       IF s >= q
       THEN AddLoop([xs EXCEPT ![i] = s - q], ys, q, i + 1, 1)
       ELSE AddLoop([xs EXCEPT ![i] = s], ys, q, i + 1, 0)

RECURSIVE CarryLoop_NoBreak(_, _, _, _)
\* the second loop without its break: the carry is added to every position
\* that is left
CarryLoop_NoBreak(xs, q, i, c) ==
  IF i > Len(xs) THEN xs
  ELSE LET s == xs[i] + c IN
       IF s >= q
       THEN CarryLoop_NoBreak([xs EXCEPT ![i] = s - q], q, i + 1, c)
       ELSE CarryLoop_NoBreak([xs EXCEPT ![i] = s], q, i + 1, c)

RECURSIVE CarryLoop(_, _, _, _)
\* the second loop of base_q_add_eq: the carry alone, until a position
\* stays below q or xs is exhausted
CarryLoop(xs, q, i, c) ==
  IF i > Len(xs) THEN xs
  ELSE LET s == xs[i] + c IN
       IF s >= q
       THEN CarryLoop([xs EXCEPT ![i] = s - q], q, i + 1, c)
       ELSE [xs EXCEPT ![i] = s]

\* base_q_add_eq that stops at the end of ys and drops the carry
base_q_add_eq_NoCarryOn(xs, ys, q) ==
  IF Len(xs) < Len(ys) THEN Panic ELSE Ok(AddLoop(xs, ys, q, 1, 0)[1])

\* base_q_add_eq that pushes a carry left at the end of xs as a new top digit
base_q_add_eq_Grow(xs, ys, q) ==
  IF Len(xs) < Len(ys) THEN Panic
  ELSE LET r == AddLoop(xs, ys, q, 1, 0) IN
       IF Len(xs) = Len(ys) /\ r[2] = 1
       THEN Ok(Append(r[1], 1))
       ELSE Ok(CarryLoop(r[1], q, Len(ys) + 1, r[2]))

\* base_q_add_eq: xs shorter than ys fails the debug assertion, or indexes
\* xs out of bounds without it
base_q_add_eq(xs, ys, q) ==
  IF Len(xs) < Len(ys) THEN Panic
  ELSE LET r == AddLoop(xs, ys, q, 1, 0) IN
       Ok(CarryLoop(r[1], q, Len(ys) + 1, r[2]))

\* base_q_add: the longer operand is copied and added to in place
base_q_add(xs, ys, q) ==
  IF Len(ys) > Len(xs) THEN base_q_add_eq(ys, xs, q) ELSE base_q_add_eq(xs, ys, q)

(***************************************************************************)
(* Factoring over the prime table.                                         *)
(***************************************************************************)
RECURSIVE FactorLoop(_, _, _)
\* the for loop of factor over PRIMES from index i on: <<x, fs>> at its end
FactorLoop(x, i, fs) ==
  IF i > Len(PRIMES) THEN <<x, fs>>
  ELSE IF x % PRIMES[i] = 0
       THEN FactorLoop(x \div PRIMES[i], i + 1, Append(fs, PRIMES[i]))
       ELSE FactorLoop(x, i + 1, fs)

\* factor that starts at the second prime of the table
factor_SkipFirst(inp) ==
  LET r == FactorLoop(inp, 2, <<>>) IN
  IF r[1] # 1 THEN Panic ELSE Ok(r[2])

\* factor without the final x != 1 test
factor_NoResidueTest(inp) == Ok(FactorLoop(inp, 1, <<>>)[2])

factor(inp) ==
  LET r == FactorLoop(inp, 1, <<>>) IN
  IF r[1] # 1 THEN Panic ELSE Ok(r[2])

(***************************************************************************)
(* Discrete-log and exponentiation tables.                                 *)
(***************************************************************************)
NPRIMES == 29

PRIMES_SKIP_2 ==
  << 3, 5, 7, 11, 13, 17, 19, 23, 29, 31, 37, 41, 43, 47, 53, 59, 61, 67, 71,
     73, 79, 83, 89, 97, 101, 103, 107, 109, 113 >>

PRIMITIVE_ROOTS ==
  << 2, 2, 3, 2, 2, 3, 2, 5, 2, 3, 2, 6, 3, 5, 2, 2, 2, 2, 7, 5, 3, 2, 3, 5, 2,
     5, 2, 6, 3 >>

\* dlog_truth_table: the table of the modulus, a panic for an unknown one
dlog_truth_table(modulus) ==
  CASE modulus = 2 ->
       Ok(<< 0, 0 >>)
    [] modulus = 3 ->
       Ok(<< 0, 0, 1 >>)
    [] modulus = 5 ->
       Ok(<< 0, 0, 1, 3, 2 >>)
    [] modulus = 7 ->
       Ok(<< 0, 0, 2, 1, 4, 5, 3 >>)
    [] modulus = 11 ->
       Ok(<< 0, 0, 1, 8, 2, 4, 9, 7, 3, 6, 5 >>)
    [] modulus = 13 ->
       Ok(<< 0, 0, 1, 4, 2, 9, 5, 11, 3, 8, 10, 7, 6 >>)
    [] modulus = 17 ->
       Ok(<< 0, 0, 14, 1, 12, 5, 15, 11, 10, 2, 3, 7, 13, 4, 9, 6, 8 >>)
    [] modulus = 19 ->
       Ok(<< 0, 0, 1, 13, 2, 16, 14, 6, 3, 8, 17, 12, 15, 5, 7, 11, 4,
       10, 9 >>)
    [] modulus = 23 ->
       Ok(<< 0, 0, 2, 16, 4, 1, 18, 19, 6, 10, 3, 9, 20, 14, 21, 17, 8,
       7, 12, 15, 5, 13, 11 >>)
    [] modulus = 29 ->
       Ok(<< 0, 0, 1, 5, 2, 22, 6, 12, 3, 10, 23, 25, 7, 18, 13, 27, 4,
       21, 11, 9, 24, 17, 26, 20, 8, 16, 19, 15, 14 >>)
    [] modulus = 31 ->
       Ok(<< 0, 0, 24, 1, 18, 20, 25, 28, 12, 2, 14, 23, 19, 11, 22, 21,
       6, 7, 26, 4, 8, 29, 17, 27, 13, 10, 5, 3, 16, 9, 15 >>)
    [] modulus = 37 ->
       Ok(<< 0, 0, 1, 26, 2, 23, 27, 32, 3, 16, 24, 30, 28, 11, 33, 13,
       4, 7, 17, 35, 25, 22, 31, 15, 29, 10, 12, 6, 34, 21, 14, 9,
       5, 20, 8, 19, 18 >>)
    [] modulus = 41 ->
       Ok(<< 0, 0, 26, 15, 12, 22, 1, 39, 38, 30, 8, 3, 27, 31, 25, 37,
       24, 33, 16, 9, 34, 14, 29, 36, 13, 4, 17, 5, 11, 7, 23, 28,
       10, 18, 19, 21, 2, 32, 35, 6, 20 >>)
    [] modulus = 43 ->
       Ok(<< 0, 0, 27, 1, 12, 25, 28, 35, 39, 2, 10, 30, 13, 32, 20, 26,
       24, 38, 29, 19, 37, 36, 15, 16, 40, 8, 17, 3, 5, 41, 11,
       34, 9, 31, 23, 18, 14, 7, 4, 33, 22, 6, 21 >>)
    [] modulus = 47 ->
       Ok(<< 0, 0, 18, 20, 36, 1, 38, 32, 8, 40, 19, 7, 10, 11, 4, 21,
       26, 16, 12, 45, 37, 6, 25, 5, 28, 2, 29, 14, 22, 35, 39, 3,
       44, 27, 34, 33, 30, 42, 17, 31, 9, 15, 24, 13, 43, 41, 23
       >>)
    [] modulus = 53 ->
       Ok(<< 0, 0, 1, 17, 2, 47, 18, 14, 3, 34, 48, 6, 19, 24, 15, 12, 4,
       10, 35, 37, 49, 31, 7, 39, 20, 42, 25, 51, 16, 46, 13, 33,
       5, 23, 11, 9, 36, 30, 38, 41, 50, 45, 32, 22, 8, 29, 40,
       44, 21, 28, 43, 27, 26 >>)
    [] modulus = 59 ->
       Ok(<< 0, 0, 1, 50, 2, 6, 51, 18, 3, 42, 7, 25, 52, 45, 19, 56, 4,
       40, 43, 38, 8, 10, 26, 15, 53, 12, 46, 34, 20, 28, 57, 49,
       5, 17, 41, 24, 44, 55, 39, 37, 9, 14, 11, 33, 27, 48, 16,
       23, 54, 36, 13, 32, 47, 22, 35, 31, 21, 30, 29 >>)
    [] modulus = 61 ->
       Ok(<< 0, 0, 1, 6, 2, 22, 7, 49, 3, 12, 23, 15, 8, 40, 50, 28, 4,
       47, 13, 26, 24, 55, 16, 57, 9, 44, 41, 18, 51, 35, 29, 59,
       5, 21, 48, 11, 14, 39, 27, 46, 25, 54, 56, 43, 17, 34, 58,
       20, 10, 38, 45, 53, 42, 33, 19, 37, 52, 32, 36, 31, 30 >>)
    [] modulus = 67 ->
       Ok(<< 0, 0, 1, 39, 2, 15, 40, 23, 3, 12, 16, 59, 41, 19, 24, 54,
       4, 64, 13, 10, 17, 62, 60, 28, 42, 30, 20, 51, 25, 44, 55,
       47, 5, 32, 65, 38, 14, 22, 11, 58, 18, 53, 63, 9, 61, 27,
       29, 50, 43, 46, 31, 37, 21, 57, 52, 8, 26, 49, 45, 36, 56,
       7, 48, 35, 6, 34, 33 >>)
    [] modulus = 71 ->
       Ok(<< 0, 0, 6, 26, 12, 28, 32, 1, 18, 52, 34, 31, 38, 39, 7, 54,
       24, 49, 58, 16, 40, 27, 37, 15, 44, 56, 45, 8, 13, 68, 60,
       11, 30, 57, 55, 29, 64, 20, 22, 65, 46, 25, 33, 48, 43, 10,
       21, 9, 50, 2, 62, 5, 51, 23, 14, 59, 19, 42, 4, 3, 66, 69,
       17, 53, 36, 67, 63, 47, 61, 41, 35 >>)
    [] modulus = 73 ->
       Ok(<< 0, 0, 8, 6, 16, 1, 14, 33, 24, 12, 9, 55, 22, 59, 41, 7, 32,
       21, 20, 62, 17, 39, 63, 46, 30, 2, 67, 18, 49, 35, 15, 11,
       40, 61, 29, 34, 28, 64, 70, 65, 25, 4, 47, 51, 71, 13, 54,
       31, 38, 66, 10, 27, 3, 53, 26, 56, 57, 68, 43, 5, 23, 58,
       19, 45, 48, 60, 69, 50, 37, 52, 42, 44, 36 >>)
    [] modulus = 79 ->
       Ok(<< 0, 0, 4, 1, 8, 62, 5, 53, 12, 2, 66, 68, 9, 34, 57, 63, 16,
       21, 6, 32, 70, 54, 72, 26, 13, 46, 38, 3, 61, 11, 67, 56,
       20, 69, 25, 37, 10, 19, 36, 35, 74, 75, 58, 49, 76, 64, 30,
       59, 17, 28, 50, 22, 42, 77, 7, 52, 65, 33, 15, 31, 71, 45,
       60, 55, 24, 18, 73, 48, 29, 27, 41, 51, 14, 44, 23, 47, 40,
       43, 39 >>)
    [] modulus = 83 ->
       Ok(<< 0, 0, 1, 72, 2, 27, 73, 8, 3, 62, 28, 24, 74, 77, 9, 17, 4,
       56, 63, 47, 29, 80, 25, 60, 75, 54, 78, 52, 10, 12, 18, 38,
       5, 14, 57, 35, 64, 20, 48, 67, 30, 40, 81, 71, 26, 7, 61,
       23, 76, 16, 55, 46, 79, 59, 53, 51, 11, 37, 13, 34, 19, 66,
       39, 70, 6, 22, 15, 45, 58, 50, 36, 33, 65, 69, 21, 44, 49,
       32, 68, 43, 31, 42, 41 >>)
    [] modulus = 89 ->
       Ok(<< 0, 0, 16, 1, 32, 70, 17, 81, 48, 2, 86, 84, 33, 23, 9, 71,
       64, 6, 18, 35, 14, 82, 12, 57, 49, 52, 39, 3, 25, 59, 87,
       31, 80, 85, 22, 63, 34, 11, 51, 24, 30, 21, 10, 29, 28, 72,
       73, 54, 65, 74, 68, 7, 55, 78, 19, 66, 41, 36, 75, 43, 15,
       69, 47, 83, 8, 5, 13, 56, 38, 58, 79, 62, 50, 20, 27, 53,
       67, 77, 40, 42, 46, 4, 37, 61, 26, 76, 45, 60, 44 >>)
    [] modulus = 97 ->
       Ok(<< 0, 0, 34, 70, 68, 1, 8, 31, 6, 44, 35, 86, 42, 25, 65, 71,
       40, 89, 78, 81, 69, 5, 24, 77, 76, 2, 59, 18, 3, 13, 9, 46,
       74, 60, 27, 32, 16, 91, 19, 95, 7, 85, 39, 4, 58, 45, 15,
       84, 14, 62, 36, 63, 93, 10, 52, 87, 37, 55, 47, 67, 43, 64,
       80, 75, 12, 26, 94, 57, 61, 51, 66, 11, 50, 28, 29, 72, 53,
       21, 33, 30, 41, 88, 23, 17, 73, 90, 38, 83, 92, 54, 79, 56,
       49, 20, 22, 82, 48 >>)
    [] modulus = 101 ->
       Ok(<< 0, 0, 1, 69, 2, 24, 70, 9, 3, 38, 25, 13, 71, 66, 10, 93, 4,
       30, 39, 96, 26, 78, 14, 86, 72, 48, 67, 7, 11, 91, 94, 84,
       5, 82, 31, 33, 40, 56, 97, 35, 27, 45, 79, 42, 15, 62, 87,
       58, 73, 18, 49, 99, 68, 23, 8, 37, 12, 65, 92, 29, 95, 77,
       85, 47, 6, 90, 83, 81, 32, 55, 34, 44, 41, 61, 57, 17, 98,
       22, 36, 64, 28, 76, 46, 89, 80, 54, 43, 60, 16, 21, 63, 75,
       88, 53, 59, 20, 74, 52, 19, 51, 50 >>)
    [] modulus = 103 ->
       Ok(<< 0, 0, 44, 39, 88, 1, 83, 4, 30, 78, 45, 61, 25, 72, 48, 40,
       74, 70, 20, 80, 89, 43, 3, 24, 69, 2, 14, 15, 92, 86, 84,
       57, 16, 100, 12, 5, 64, 93, 22, 9, 31, 50, 87, 77, 47, 79,
       68, 85, 11, 8, 46, 7, 58, 97, 59, 62, 34, 17, 28, 98, 26,
       36, 101, 82, 60, 73, 42, 13, 56, 63, 49, 67, 6, 33, 35, 41,
       66, 65, 53, 18, 75, 54, 94, 38, 29, 71, 19, 23, 91, 99, 21,
       76, 10, 96, 27, 81, 55, 32, 52, 37, 90, 95, 51 >>)
    [] modulus = 107 ->
       Ok(<< 0, 0, 1, 70, 2, 47, 71, 43, 3, 34, 48, 22, 72, 14, 44, 11,
       4, 29, 35, 78, 49, 7, 23, 62, 73, 94, 15, 104, 45, 32, 12,
       27, 5, 92, 30, 90, 36, 38, 79, 84, 50, 40, 8, 59, 24, 81,
       63, 66, 74, 86, 95, 99, 16, 52, 105, 69, 46, 42, 33, 21,
       13, 10, 28, 77, 6, 61, 93, 103, 31, 26, 91, 89, 37, 83, 39,
       58, 80, 65, 85, 98, 51, 68, 41, 20, 9, 76, 60, 102, 25, 88,
       82, 57, 64, 97, 67, 19, 75, 101, 87, 56, 96, 18, 100, 55,
       17, 54, 53 >>)
    [] modulus = 109 ->
       Ok(<< 0, 0, 57, 52, 6, 76, 1, 40, 63, 104, 25, 83, 58, 67, 97, 20,
       12, 93, 53, 75, 82, 92, 32, 33, 7, 44, 16, 48, 46, 34, 77,
       14, 69, 27, 42, 8, 2, 5, 24, 11, 31, 45, 41, 30, 89, 72,
       90, 17, 64, 80, 101, 37, 73, 49, 105, 51, 103, 19, 91, 47,
       26, 10, 71, 36, 18, 35, 84, 95, 99, 85, 65, 78, 59, 56, 62,
       96, 81, 15, 68, 23, 88, 100, 102, 70, 98, 61, 87, 86, 38,
       28, 21, 107, 39, 66, 74, 43, 13, 4, 29, 79, 50, 9, 94, 55,
       22, 60, 106, 3, 54 >>)
    [] modulus = 113 ->
       Ok(<< 0, 0, 12, 1, 24, 83, 13, 8, 36, 2, 95, 74, 25, 22, 20, 84,
       48, 5, 14, 99, 107, 9, 86, 41, 37, 54, 34, 3, 32, 89, 96,
       50, 60, 75, 17, 91, 26, 67, 111, 23, 7, 94, 21, 47, 98, 85,
       53, 31, 49, 16, 66, 6, 46, 52, 15, 45, 44, 100, 101, 71,
       108, 102, 62, 10, 72, 105, 87, 109, 29, 42, 103, 77, 38,
       63, 79, 55, 11, 82, 35, 73, 19, 4, 106, 40, 33, 88, 59, 90,
       110, 93, 97, 30, 65, 51, 43, 70, 61, 104, 28, 76, 78, 81,
       18, 39, 58, 92, 64, 69, 27, 80, 57, 68, 56 >>)
    [] OTHER -> Panic

\* exp_truth_table: the table of the modulus, a panic for an unknown one
exp_truth_table(modulus) ==
  CASE modulus = 2 ->
       Ok(<< 1, 1 >>)
    [] modulus = 3 ->
       Ok(<< 1, 2, 1 >>)
    [] modulus = 5 ->
       Ok(<< 1, 2, 4, 3, 1 >>)
    [] modulus = 7 ->
       Ok(<< 1, 3, 2, 6, 4, 5, 1 >>)
    [] modulus = 11 ->
       Ok(<< 1, 2, 4, 8, 5, 10, 9, 7, 3, 6, 1 >>)
    [] modulus = 13 ->
       Ok(<< 1, 2, 4, 8, 3, 6, 12, 11, 9, 5, 10, 7, 1 >>)
    [] modulus = 17 ->
       Ok(<< 1, 3, 9, 10, 13, 5, 15, 11, 16, 14, 8, 7, 4, 12, 2, 6, 1 >>)
    [] modulus = 19 ->
       Ok(<< 1, 2, 4, 8, 16, 13, 7, 14, 9, 18, 17, 15, 11, 3, 6, 12, 5,
       10, 1 >>)
    [] modulus = 23 ->
       Ok(<< 1, 5, 2, 10, 4, 20, 8, 17, 16, 11, 9, 22, 18, 21, 13, 19, 3,
       15, 6, 7, 12, 14, 1 >>)
    [] modulus = 29 ->
       Ok(<< 1, 2, 4, 8, 16, 3, 6, 12, 24, 19, 9, 18, 7, 14, 28, 27, 25,
       21, 13, 26, 23, 17, 5, 10, 20, 11, 22, 15, 1 >>)
    [] modulus = 31 ->
       Ok(<< 1, 3, 9, 27, 19, 26, 16, 17, 20, 29, 25, 13, 8, 24, 10, 30,
       28, 22, 4, 12, 5, 15, 14, 11, 2, 6, 18, 23, 7, 21, 1 >>)
    [] modulus = 37 ->
       Ok(<< 1, 2, 4, 8, 16, 32, 27, 17, 34, 31, 25, 13, 26, 15, 30, 23,
       9, 18, 36, 35, 33, 29, 21, 5, 10, 20, 3, 6, 12, 24, 11, 22,
       7, 14, 28, 19, 1 >>)
    [] modulus = 41 ->
       Ok(<< 1, 6, 36, 11, 25, 27, 39, 29, 10, 19, 32, 28, 4, 24, 21, 3,
       18, 26, 33, 34, 40, 35, 5, 30, 16, 14, 2, 12, 31, 22, 9,
       13, 37, 17, 20, 38, 23, 15, 8, 7, 1 >>)
    [] modulus = 43 ->
       Ok(<< 1, 3, 9, 27, 38, 28, 41, 37, 25, 32, 10, 30, 4, 12, 36, 22,
       23, 26, 35, 19, 14, 42, 40, 34, 16, 5, 15, 2, 6, 18, 11,
       33, 13, 39, 31, 7, 21, 20, 17, 8, 24, 29, 1 >>)
    [] modulus = 47 ->
       Ok(<< 1, 5, 25, 31, 14, 23, 21, 11, 8, 40, 12, 13, 18, 43, 27, 41,
       17, 38, 2, 10, 3, 15, 28, 46, 42, 22, 16, 33, 24, 26, 36,
       39, 7, 35, 34, 29, 4, 20, 6, 30, 9, 45, 37, 44, 32, 19, 1
       >>)
    [] modulus = 53 ->
       Ok(<< 1, 2, 4, 8, 16, 32, 11, 22, 44, 35, 17, 34, 15, 30, 7, 14,
       28, 3, 6, 12, 24, 48, 43, 33, 13, 26, 52, 51, 49, 45, 37,
       21, 42, 31, 9, 18, 36, 19, 38, 23, 46, 39, 25, 50, 47, 41,
       29, 5, 10, 20, 40, 27, 1 >>)
    [] modulus = 59 ->
       Ok(<< 1, 2, 4, 8, 16, 32, 5, 10, 20, 40, 21, 42, 25, 50, 41, 23,
       46, 33, 7, 14, 28, 56, 53, 47, 35, 11, 22, 44, 29, 58, 57,
       55, 51, 43, 27, 54, 49, 39, 19, 38, 17, 34, 9, 18, 36, 13,
       26, 52, 45, 31, 3, 6, 12, 24, 48, 37, 15, 30, 1 >>)
    [] modulus = 61 ->
       Ok(<< 1, 2, 4, 8, 16, 32, 3, 6, 12, 24, 48, 35, 9, 18, 36, 11, 22,
       44, 27, 54, 47, 33, 5, 10, 20, 40, 19, 38, 15, 30, 60, 59,
       57, 53, 45, 29, 58, 55, 49, 37, 13, 26, 52, 43, 25, 50, 39,
       17, 34, 7, 14, 28, 56, 51, 41, 21, 42, 23, 46, 31, 1 >>)
    [] modulus = 67 ->
       Ok(<< 1, 2, 4, 8, 16, 32, 64, 61, 55, 43, 19, 38, 9, 18, 36, 5,
       10, 20, 40, 13, 26, 52, 37, 7, 14, 28, 56, 45, 23, 46, 25,
       50, 33, 66, 65, 63, 59, 51, 35, 3, 6, 12, 24, 48, 29, 58,
       49, 31, 62, 57, 47, 27, 54, 41, 15, 30, 60, 53, 39, 11, 22,
       44, 21, 42, 17, 34, 1 >>)
    [] modulus = 71 ->
       Ok(<< 1, 7, 49, 59, 58, 51, 2, 14, 27, 47, 45, 31, 4, 28, 54, 23,
       19, 62, 8, 56, 37, 46, 38, 53, 16, 41, 3, 21, 5, 35, 32,
       11, 6, 42, 10, 70, 64, 22, 12, 13, 20, 69, 57, 44, 24, 26,
       40, 67, 43, 17, 48, 52, 9, 63, 15, 34, 25, 33, 18, 55, 30,
       68, 50, 66, 36, 39, 60, 65, 29, 61, 1 >>)
    [] modulus = 73 ->
       Ok(<< 1, 5, 25, 52, 41, 59, 3, 15, 2, 10, 50, 31, 9, 45, 6, 30, 4,
       20, 27, 62, 18, 17, 12, 60, 8, 40, 54, 51, 36, 34, 24, 47,
       16, 7, 35, 29, 72, 68, 48, 21, 32, 14, 70, 58, 71, 63, 23,
       42, 64, 28, 67, 43, 69, 53, 46, 11, 55, 56, 61, 13, 65, 33,
       19, 22, 37, 39, 49, 26, 57, 66, 38, 44, 1 >>)
    [] modulus = 79 ->
       Ok(<< 1, 3, 9, 27, 2, 6, 18, 54, 4, 12, 36, 29, 8, 24, 72, 58, 16,
       48, 65, 37, 32, 17, 51, 74, 64, 34, 23, 69, 49, 68, 46, 59,
       19, 57, 13, 39, 38, 35, 26, 78, 76, 70, 52, 77, 73, 61, 25,
       75, 67, 43, 50, 71, 55, 7, 21, 63, 31, 14, 42, 47, 62, 28,
       5, 15, 45, 56, 10, 30, 11, 33, 20, 60, 22, 66, 40, 41, 44,
       53, 1 >>)
    [] modulus = 83 ->
       Ok(<< 1, 2, 4, 8, 16, 32, 64, 45, 7, 14, 28, 56, 29, 58, 33, 66,
       49, 15, 30, 60, 37, 74, 65, 47, 11, 22, 44, 5, 10, 20, 40,
       80, 77, 71, 59, 35, 70, 57, 31, 62, 41, 82, 81, 79, 75, 67,
       51, 19, 38, 76, 69, 55, 27, 54, 25, 50, 17, 34, 68, 53, 23,
       46, 9, 18, 36, 72, 61, 39, 78, 73, 63, 43, 3, 6, 12, 24,
       48, 13, 26, 52, 21, 42, 1 >>)
    [] modulus = 89 ->
       Ok(<< 1, 3, 9, 27, 81, 65, 17, 51, 64, 14, 42, 37, 22, 66, 20, 60,
       2, 6, 18, 54, 73, 41, 34, 13, 39, 28, 84, 74, 44, 43, 40,
       31, 4, 12, 36, 19, 57, 82, 68, 26, 78, 56, 79, 59, 88, 86,
       80, 62, 8, 24, 72, 38, 25, 75, 47, 52, 67, 23, 69, 29, 87,
       83, 71, 35, 16, 48, 55, 76, 50, 61, 5, 15, 45, 46, 49, 58,
       85, 77, 53, 70, 32, 7, 21, 63, 11, 33, 10, 30, 1 >>)
    [] modulus = 97 ->
       Ok(<< 1, 5, 25, 28, 43, 21, 8, 40, 6, 30, 53, 71, 64, 29, 48, 46,
       36, 83, 27, 38, 93, 77, 94, 82, 22, 13, 65, 34, 73, 74, 79,
       7, 35, 78, 2, 10, 50, 56, 86, 42, 16, 80, 12, 60, 9, 45,
       31, 58, 96, 92, 72, 69, 54, 76, 89, 57, 91, 67, 44, 26, 33,
       68, 49, 51, 61, 14, 70, 59, 4, 20, 3, 15, 75, 84, 32, 63,
       24, 23, 18, 90, 62, 19, 95, 87, 47, 41, 11, 55, 81, 17, 85,
       37, 88, 52, 66, 39, 1 >>)
    [] modulus = 101 ->
       Ok(<< 1, 2, 4, 8, 16, 32, 64, 27, 54, 7, 14, 28, 56, 11, 22, 44,
       88, 75, 49, 98, 95, 89, 77, 53, 5, 10, 20, 40, 80, 59, 17,
       34, 68, 35, 70, 39, 78, 55, 9, 18, 36, 72, 43, 86, 71, 41,
       82, 63, 25, 50, 100, 99, 97, 93, 85, 69, 37, 74, 47, 94,
       87, 73, 45, 90, 79, 57, 13, 26, 52, 3, 6, 12, 24, 48, 96,
       91, 81, 61, 21, 42, 84, 67, 33, 66, 31, 62, 23, 46, 92, 83,
       65, 29, 58, 15, 30, 60, 19, 38, 76, 51, 1 >>)
    [] modulus = 103 ->
       Ok(<< 1, 5, 25, 22, 7, 35, 72, 51, 49, 39, 92, 48, 34, 67, 26, 27,
       32, 57, 79, 86, 18, 90, 38, 87, 23, 12, 60, 94, 58, 84, 8,
       40, 97, 73, 56, 74, 61, 99, 83, 3, 15, 75, 66, 21, 2, 10,
       50, 44, 14, 70, 41, 102, 98, 78, 81, 96, 68, 31, 52, 54,
       64, 11, 55, 69, 36, 77, 76, 71, 46, 24, 17, 85, 13, 65, 16,
       80, 91, 43, 9, 45, 19, 95, 63, 6, 30, 47, 29, 42, 4, 20,
       100, 88, 28, 37, 82, 101, 93, 53, 59, 89, 33, 62, 1 >>)
    [] modulus = 107 ->
       Ok(<< 1, 2, 4, 8, 16, 32, 64, 21, 42, 84, 61, 15, 30, 60, 13, 26,
       52, 104, 101, 95, 83, 59, 11, 22, 44, 88, 69, 31, 62, 17,
       34, 68, 29, 58, 9, 18, 36, 72, 37, 74, 41, 82, 57, 7, 14,
       28, 56, 5, 10, 20, 40, 80, 53, 106, 105, 103, 99, 91, 75,
       43, 86, 65, 23, 46, 92, 77, 47, 94, 81, 55, 3, 6, 12, 24,
       48, 96, 85, 63, 19, 38, 76, 45, 90, 73, 39, 78, 49, 98, 89,
       71, 35, 70, 33, 66, 25, 50, 100, 93, 79, 51, 102, 97, 87,
       67, 27, 54, 1 >>)
    [] modulus = 109 ->
       Ok(<< 1, 6, 36, 107, 97, 37, 4, 24, 35, 101, 61, 39, 16, 96, 31,
       77, 26, 47, 64, 57, 15, 90, 104, 79, 38, 10, 60, 33, 89,
       98, 43, 40, 22, 23, 29, 65, 63, 51, 88, 92, 7, 42, 34, 95,
       25, 41, 28, 59, 27, 53, 100, 55, 3, 18, 108, 103, 73, 2,
       12, 72, 105, 85, 74, 8, 48, 70, 93, 13, 78, 32, 83, 62, 45,
       52, 94, 19, 5, 30, 71, 99, 49, 76, 20, 11, 66, 69, 87, 86,
       80, 44, 46, 58, 21, 17, 102, 67, 75, 14, 84, 68, 81, 50,
       82, 56, 9, 54, 106, 91, 1 >>)
    [] modulus = 113 ->
       Ok(<< 1, 3, 9, 27, 81, 17, 51, 40, 7, 21, 63, 76, 2, 6, 18, 54,
       49, 34, 102, 80, 14, 42, 13, 39, 4, 12, 36, 108, 98, 68,
       91, 47, 28, 84, 26, 78, 8, 24, 72, 103, 83, 23, 69, 94, 56,
       55, 52, 43, 16, 48, 31, 93, 53, 46, 25, 75, 112, 110, 104,
       86, 32, 96, 62, 73, 106, 92, 50, 37, 111, 107, 95, 59, 64,
       79, 11, 33, 99, 71, 100, 74, 109, 101, 77, 5, 15, 45, 22,
       66, 85, 29, 87, 35, 105, 89, 41, 10, 30, 90, 44, 19, 57,
       58, 61, 70, 97, 65, 82, 20, 60, 67, 88, 38, 1 >>)
    [] OTHER -> Panic

\* v[k] of a Vec that a call returned: the element at the 0-based index k,
\* a panic when the call panicked or k is out of bounds
IndexOf(r, k) ==
  IF r.panic THEN Panic
  ELSE IF k < 0 \/ k >= Len(r.val) THEN Panic ELSE Ok(r.val[k + 1])

RECURSIVE PowmLoop(_, _, _, _, _)
\* the while loop of powm on u16: x.pow(2) and x * z panic on overflow when
\* the build checks it and wrap to 16 bits when it does not
PowmLoop(x, z, n, modulus, checks) ==
  IF n = 0 THEN Ok(z)
  ELSE IF n % 2 = 0
       THEN IF x * x >= U16 /\ checks THEN Panic
            ELSE PowmLoop(((x * x) % U16) % modulus, z, n \div 2, modulus, checks)
       ELSE IF x * z >= U16 /\ checks THEN Panic
            ELSE PowmLoop(x, ((x * z) % U16) % modulus, n - 1, modulus, checks)

RECURSIVE PowmStaleLoop(_, _, _, _, _)
PowmStaleLoop(inp, z, n, modulus, checks) ==
  IF n = 0 THEN Ok(z)
  ELSE IF n % 2 = 0
       THEN PowmStaleLoop(inp, ((z * z) % U16) % modulus, n \div 2, modulus, checks)
       ELSE PowmStaleLoop(inp, ((inp * z) % U16) % modulus, n - 1, modulus, checks)

\* powm that squares the accumulator instead of the base
powm_SquaresAccumulator(inp, pow, modulus, checks) ==
  PowmStaleLoop(inp, 1, pow, modulus, checks)

powm(inp, pow, modulus, checks) == PowmLoop(inp, 1, pow, modulus, checks)

(***************************************************************************)
(* Carry-depth helper.                                                     *)
(***************************************************************************)
RECURSIVE CeilLogFrom(_, _, _)
\* the least k >= from with q^k >= s
CeilLogFrom(q, s, from) == IF Pow(q, from) >= s THEN from ELSE CeilLogFrom(q, s, from + 1)

\* (s as f64).log(q as f64).ceil() for s >= 1: the least k with q^k >= s
CeilLog(q, s) == CeilLogFrom(q, s, 0)

\* num_carry_digits_to_add_n_digits: ceil(log_q(n * (q - 1)))
num_carry_digits_to_add_n_digits(q, n) == CeilLog(q, n * (q - 1))

RECURSIVE RadixDigits(_, _)
\* the base-radix digits of a positive magnitude, least significant first
RadixDigits(v, radix) ==
  IF v = 0 THEN <<>> ELSE <<v % radix>> \o RadixDigits(v \div radix, radix)

\* BigInt::to_radix_le: the digits of the magnitude, the single digit 0 for 0
to_radix_le(v, radix) == IF v = 0 THEN <<0>> ELSE RadixDigits(v, radix)

(***************************************************************************)
(* Modulus search.  The running product is a true u128 here: a natural     *)
(* number is the sequence of its 16-bit limbs, least significant first,    *)
(* without leading zero limbs, and a u128 has at most U128Limbs of them.   *)
(***************************************************************************)
\* a u128 is 8 limbs of 16 bits
U128Limbs == 8

\* the 128 bits of u128
U128Bits == U128Limbs * CeilLog2(U16)

RECURSIVE BigNorm(_)
\* a limb sequence without its leading (most significant) zero limbs
BigNorm(l) ==
  IF l # <<>> /\ l[Len(l)] = 0 THEN BigNorm(SubSeq(l, 1, Len(l) - 1)) ELSE l

RECURSIVE BigMulLoop(_, _, _, _, _)
\* the exact product of the natural number l and a u16 m, limb by limb
BigMulLoop(l, m, i, carry, acc) ==
  IF i > Len(l)
  THEN BigNorm(acc \o <<carry % U16, carry \div U16>>)
  ELSE LET t == l[i] * m + carry IN
       BigMulLoop(l, m, i + 1, t \div U16, Append(acc, t % U16))

BigMul(l, m) == BigMulLoop(l, m, 1, 0, <<>>)

\* the number of bits of a natural number: 0 for 0
BigBitLen(l) ==
  IF l = <<>> THEN 0
  ELSE CeilLog2(U16) * (Len(l) - 1) + CeilLog2(l[Len(l)] + 1)

\* a failure of base_modulus_with_width: the assertion i < ps.len(), or an
\* arithmetic overflow caught by a build that checks it
Failure(why) == [panic |-> TRUE, why |-> why]

RECURSIVE ModulusLoop(_, _, _, _, _)
\* the loop of base_modulus_with_width at index i (1-based) with product res.
\* res *= p is a plain u128 multiplication: it panics on overflow when the
\* build checks it and keeps the low 128 bits when it does not.
\* res >> nbits panics for nbits >= 128 when the build checks it and shifts
\* by nbits % 128 when it does not.
ModulusLoop(nbits, ps, i, res, checks) ==
  LET full == BigMul(res, ps[i])
      next == BigNorm(SubSeq(full, 1, Min(Len(full), U128Limbs)))
  IN  IF Len(full) > U128Limbs /\ checks THEN Failure("overflow")
      ELSE IF nbits >= U128Bits /\ checks THEN Failure("overflow")
      ELSE IF BigBitLen(next) > nbits % U128Bits THEN Ok(next)
      ELSE IF ~(i + 1 <= Len(ps)) THEN Failure("exhausted")
      ELSE ModulusLoop(nbits, ps, i + 1, next, checks)

base_modulus_with_width(nbits, ps, checks) == ModulusLoop(nbits, ps, 1, <<1>>, checks)

modulus_with_width(nbits, checks) == base_modulus_with_width(nbits, PRIMES, checks)

modulus_with_width_skip2(nbits, checks) ==
  base_modulus_with_width(nbits, PRIMES_SKIP_2, checks)

(***************************************************************************)
(* Inputs.                                                                 *)
(***************************************************************************)
PrimeSet == Range(PRIMES)

RECURSIVE PrimeLists(_)
\* the lists of k distinct table primes whose product is at most MaxCrtModulus
PrimeLists(k) ==
  IF k = 0 THEN {<<>>}
  ELSE UNION {{Append(s, p) : p \in {r \in PrimeSet :
                                       /\ r \notin Range(s)
                                       /\ SeqProduct(s) * r <= MaxCrtModulus
                                       /\ SeqProduct(s) * r < WordLimit}} :
              s \in PrimeLists(k - 1)}

\* no list of more than 7 distinct primes has a product below 2^20
AllPrimeLists == UNION {PrimeLists(k) : k \in 0..7}

InvRefArgs == [a : 0..MaxInvA, m : 1..MaxInvM]

CrtArgs ==
  UNION {[ps : {l}, x : 0..(SeqProduct(l) - 1)] : l \in AllPrimeLists}

RECURSIVE ModulusLists(_)
\* the modulus sequences over 2..MaxModulus of length k with a product of at
\* most MaxRadixProduct
ModulusLists(k) ==
  IF k = 0 THEN {<<>>}
  ELSE UNION {{Append(s, m) : m \in {r \in 2..MaxModulus :
                                       SeqProduct(s) * r <= MaxRadixProduct}} :
              s \in ModulusLists(k - 1)}

\* a product of k moduli is at least 2^k, which bounds the length
AllModulusLists == UNION {ModulusLists(k) : k \in 0..CeilLog2(MaxRadixProduct)}

\* every x below product(ms), and product(ms) itself, the first value the
\* sequence cannot represent
MixedRadixArgs ==
  UNION {[ms : {l}, x : 0..Min(SeqProduct(l), WordLimit - 1)] : l \in AllModulusLists}

\* sequences with a modulus whose digits need two bytes
WideModulusLists == {<<WideModulus>>, <<WideModulus, 2>>, <<2, WideModulus>>}

MixedRadixBigintArgs ==
  MixedRadixArgs \cup
  UNION {[ms : {l}, x : 0..(SeqProduct(l) - 1)] : l \in WideModulusLists}

\* the bases of the tests: 2 + (rng.gen_u16() % 111)
TestBases == 2..MaxTestBase

\* every x below q^n, n = digits_per_u128(q), and q^n itself when it is a
\* value of the word
BaseQArgs ==
  UNION {[q : {b}, x : 0..Min(Pow(b, digits_per_u128(b)), WordLimit - 1)] :
         b \in TestBases}

\* the least number of base-q digits that can hold a value of WordLimit or more
OverflowLen(q) ==
  CHOOSE L \in 1..(WordBits + 1) : Pow(q, L) >= WordLimit /\ Pow(q, L - 1) < WordLimit

\* the digit vectors of base q (digits below q) of length up to OverflowLen(q)
FromBaseQArgs ==
  UNION {UNION {[q : {b}, ds : [1..k -> 0..(b - 1)]] : k \in 0..OverflowLen(b)} :
         b \in 2..MaxFromBase}

\* bases and widths n >= 1 with q^n at most MaxAddModulus and at most 2^WordBits
AddWidths(q) == {n \in 1..WordBits : Pow(q, n) <= MaxAddModulus /\ Pow(q, n) <= WordLimit}

BaseQAddArgs ==
  UNION {UNION {[q : {b}, n : {w}, x : 0..(Pow(b, w) - 1), y : 0..(Pow(b, w) - 1)] :
                w \in AddWidths(b)} : b \in 2..MaxAddBase}

FactorArgs == [inp : 0..(WordLimit - 1)]

U16FromBigintArgs == [bi : 0..MaxBigDigit]

\* tests::discrete_log: the 0-based index i of a prime and an x below it
DiscreteLogArgs ==
  UNION {[i : {k}, x : 0..(PRIMES_SKIP_2[k + 1] - 1)] : k \in 0..(NPRIMES - 1)}

\* tests::max_carry_digits: a base q >= 2 and a count n >= 2
CarryDigitsArgs == [q : 2..MaxCarryBase, n : 2..MaxCarryCount]

\* the widths asked of the modulus search
ModulusWidthArgs == [nbits : 0..MaxWidthBits]

\* the moduli the tables are asked for, known and unknown
TruthTableArgs == [modulus : 0..MaxTableModulus]

(***************************************************************************)
(* The call harness.                                                       *)
(***************************************************************************)
Init ==
  /\ pc = "call"
  /\ ret = Panic
  /\ \/ fn = "inv_ref" /\ args \in InvRefArgs
     \/ fn = "crt_conversion" /\ args \in CrtArgs
     \/ fn = "mixed_radix" /\ args \in MixedRadixArgs
     \/ fn = "mixed_radix_bigint" /\ args \in MixedRadixBigintArgs
     \/ fn = "u16_from_bigint" /\ args \in U16FromBigintArgs
     \/ fn = "base_q_conversion" /\ args \in BaseQArgs
     \/ fn = "padded_base_q_conversion" /\ args \in BaseQArgs
     \/ fn = "from_base_q" /\ args \in FromBaseQArgs
     \/ fn = "base_q_addition" /\ args \in BaseQAddArgs
     \/ fn = "factor" /\ args \in FactorArgs
     \/ fn = "discrete_log" /\ args \in DiscreteLogArgs
     \/ fn = "truth_tables" /\ args \in TruthTableArgs
     \/ fn = "max_carry_digits" /\ args \in CarryDigitsArgs
     \/ fn = "modulus_with_width" /\ args \in ModulusWidthArgs
     \/ fn = "modulus_with_width_skip2" /\ args \in ModulusWidthArgs

\* inv_ref(a, m)
CallInvRef ==
  /\ pc = "call" /\ fn = "inv_ref"
  /\ ret' = inv_ref(args.a, args.m)
  /\ pc' = "ret"
  /\ UNCHANGED <<fn, args>>

\* tests::crt_conversion: crt_inv(ps, crt(ps, x))
CallCrtConversion ==
  /\ pc = "call" /\ fn = "crt_conversion"
  /\ LET xs == crt(args.ps, args.x) IN
     ret' = [xs |-> xs, x |-> crt_inv(args.ps, xs)]
  /\ pc' = "ret"
  /\ UNCHANGED <<fn, args>>

\* as_mixed_radix(x, ms) and padded_mixed_radix(x, ms)
CallMixedRadix ==
  /\ pc = "call" /\ fn = "mixed_radix"
  /\ ret' = [ds |-> as_mixed_radix(args.x, args.ms),
             padded |-> padded_mixed_radix(args.x, args.ms)]
  /\ pc' = "ret"
  /\ UNCHANGED <<fn, args>>

\* as_mixed_radix_bigint(x, ms) and padded_mixed_radix_bigint(x, ms), in a
\* build with or without overflow checks
CallMixedRadixBigint ==
  /\ pc = "call" /\ fn = "mixed_radix_bigint"
  /\ \E checks \in BOOLEAN :
       ret' = [checks |-> checks,
               ds |-> as_mixed_radix_bigint(args.x, args.ms, checks),
               padded |-> padded_mixed_radix_bigint(args.x, args.ms, checks)]
  /\ pc' = "ret"
  /\ UNCHANGED <<fn, args>>

\* u16_from_bigint(bi), in a build with or without overflow checks
CallU16FromBigint ==
  /\ pc = "call" /\ fn = "u16_from_bigint"
  /\ \E checks \in BOOLEAN :
       ret' = [checks |-> checks, out |-> u16_from_bigint(args.bi, checks)]
  /\ pc' = "ret"
  /\ UNCHANGED <<fn, args>>

\* the value a digit vector that may have failed to be produced decodes to
FromBaseQOf(r, q, checks) == IF r.panic THEN Panic ELSE from_base_q(r.val, q, checks)

\* tests::base_q_conversion: from_base_q(as_base_q(x, q), q)
CallBaseQConversion ==
  /\ pc = "call" /\ fn = "base_q_conversion"
  /\ \E checks \in BOOLEAN :
       LET y == as_base_q(args.x, args.q) IN
       ret' = [y |-> y, z |-> FromBaseQOf(y, args.q, checks)]
  /\ pc' = "ret"
  /\ UNCHANGED <<fn, args>>

\* tests::padded_base_q_conversion: from_base_q(padded_base_q_128(x, q), q)
CallPaddedBaseQConversion ==
  /\ pc = "call" /\ fn = "padded_base_q_conversion"
  /\ \E checks \in BOOLEAN :
       LET y == padded_base_q_128(args.x, args.q) IN
       ret' = [y |-> y, z |-> from_base_q(y, args.q, checks)]
  /\ pc' = "ret"
  /\ UNCHANGED <<fn, args>>

\* from_base_q(ds, q), in a build with or without overflow checks
CallFromBaseQ ==
  /\ pc = "call" /\ fn = "from_base_q"
  /\ \E checks \in BOOLEAN :
       ret' = [checks |-> checks, out |-> from_base_q(args.ds, args.q, checks)]
  /\ pc' = "ret"
  /\ UNCHANGED <<fn, args>>

\* tests::base_q_addition with the width n an argument: x padded to n
\* digits, y at its natural length against n positions of base q, their
\* base_q_add and the value it decodes to
CallBaseQAddition ==
  /\ pc = "call" /\ fn = "base_q_addition"
  /\ \E checks \in BOOLEAN :
       LET xp == padded_base_q(args.x, args.q, args.n)
           yp == as_mixed_radix(args.y, Repeat(args.q, args.n))
           zp == base_q_add(xp, yp, args.q)
       IN  ret' = [xp |-> xp, yp |-> yp, zp |-> zp,
                   z |-> FromBaseQOf(zp, args.q, checks)]
  /\ pc' = "ret"
  /\ UNCHANGED <<fn, args>>

\* factor(inp)
CallFactor ==
  /\ pc = "call" /\ fn = "factor"
  /\ ret' = factor(args.inp)
  /\ pc' = "ret"
  /\ UNCHANGED <<fn, args>>

\* powm(inp, pow, modulus) with the exponent a table entry that may have
\* failed to be read
PowmOf(inp, d, modulus, checks) ==
  IF d.panic THEN Panic ELSE powm(inp, d.val, modulus, checks)

\* the number of elements of a Vec that a call returned, -1 when it panicked
LenOf(r) == IF r.panic THEN 0 - 1 ELSE Len(r.val)

\* tests::discrete_log: z = powm(g, tt[x], q) and exp_truth_table(q)[tt[x]],
\* nothing for x = 0, in a build with or without overflow checks
CallDiscreteLog ==
  /\ pc = "call" /\ fn = "discrete_log"
  /\ \E checks \in BOOLEAN :
       LET q == PRIMES_SKIP_2[args.i + 1]
           tt == dlog_truth_table(q)
           g == PRIMITIVE_ROOTS[args.i + 1]
           d == IndexOf(tt, args.x)
       IN  ret' = IF args.x = 0
                  THEN [skipped |-> TRUE]
                  ELSE [skipped |-> FALSE, checks |-> checks, q |-> q, g |-> g,
                        d |-> d,
                        z |-> PowmOf(g, d, q, checks),
                        e |-> IF d.panic THEN Panic
                              ELSE IndexOf(exp_truth_table(q), d.val)]
  /\ pc' = "ret"
  /\ UNCHANGED <<fn, args>>

\* dlog_truth_table(modulus) and exp_truth_table(modulus)
CallTruthTables ==
  /\ pc = "call" /\ fn = "truth_tables"
  /\ ret' = [dlog |-> dlog_truth_table(args.modulus),
             exp |-> exp_truth_table(args.modulus)]
  /\ pc' = "ret"
  /\ UNCHANGED <<fn, args>>

\* tests::max_carry_digits: the sum p of n digits q - 1, its base-q digits
\* and the predicted number of digits
CallMaxCarryDigits ==
  /\ pc = "call" /\ fn = "max_carry_digits"
  /\ LET sum == args.n * (args.q - 1) IN
     ret' = [p |-> sum,
             ds |-> to_radix_le(sum, args.q),
             carry |-> num_carry_digits_to_add_n_digits(args.q, args.n)]
  /\ pc' = "ret"
  /\ UNCHANGED <<fn, args>>

\* modulus_with_width(nbits), in a build with or without overflow checks
CallModulusWithWidth ==
  /\ pc = "call" /\ fn = "modulus_with_width"
  /\ \E checks \in BOOLEAN :
       ret' = [checks |-> checks, ps |-> PRIMES,
               out |-> modulus_with_width(args.nbits, checks)]
  /\ pc' = "ret"
  /\ UNCHANGED <<fn, args>>

\* modulus_with_width_skip2(nbits), in a build with or without overflow checks
CallModulusWithWidthSkip2 ==
  /\ pc = "call" /\ fn = "modulus_with_width_skip2"
  /\ \E checks \in BOOLEAN :
       ret' = [checks |-> checks, ps |-> PRIMES_SKIP_2,
               out |-> modulus_with_width_skip2(args.nbits, checks)]
  /\ pc' = "ret"
  /\ UNCHANGED <<fn, args>>

Next ==
  \/ CallInvRef
  \/ CallCrtConversion
  \/ CallMixedRadix
  \/ CallMixedRadixBigint
  \/ CallU16FromBigint
  \/ CallBaseQConversion
  \/ CallPaddedBaseQConversion
  \/ CallFromBaseQ
  \/ CallBaseQAddition
  \/ CallFactor
  \/ CallDiscreteLog
  \/ CallTruthTables
  \/ CallMaxCarryDigits
  \/ CallModulusWithWidth
  \/ CallModulusWithWidthSkip2

Spec == Init /\ [][Next]_vars

(***************************************************************************)
(* Repeated in-place addition: base_q_add_eq(xs, ys, q) called again and   *)
(* again on the same xs.  args holds q, ys and the current xs; ret holds   *)
(* the arguments as they were before the last call.                        *)
(***************************************************************************)
\* the digit vectors of base q (digits below q) of length up to MaxAddEqLen
DigitVectors(q) == UNION {[1..k -> 0..(q - 1)] : k \in 0..MaxAddEqLen}

AddEqArgs ==
  UNION {[q : {b}, xs : DigitVectors(b), ys : DigitVectors(b)] : b \in 2..MaxAddEqBase}

InitAddEq ==
  /\ pc = "call"
  /\ fn = "base_q_add_eq"
  /\ args \in AddEqArgs
  /\ ret = Panic

\* base_q_add_eq(&mut xs, &ys, q): xs is updated in place; a panic (xs
\* shorter than ys) ends the run
CallBaseQAddEq ==
  /\ fn = "base_q_add_eq"
  /\ pc = "call" \/ ~ret.panic
  /\ LET r == base_q_add_eq(args.xs, args.ys, args.q) IN
     IF r.panic
     THEN ret' = Panic /\ args' = args
     ELSE ret' = Ok(args) /\ args' = [args EXCEPT !.xs = r.val]
  /\ pc' = "ret"
  /\ UNCHANGED fn

NextAddEq == CallBaseQAddEq

SpecAddEq == InitAddEq /\ [][NextAddEq]_vars

(***************************************************************************)
(* Properties.                                                             *)
(***************************************************************************)
Returned(f) == pc = "ret" /\ fn = f

RECURSIVE GCD(_, _)
GCD(a, b) == IF b = 0 THEN a ELSE GCD(b, a % b)

\* C1: CRT round-trip.  For every list ps of distinct table primes whose
\* product fits the word and every x below product(ps), crt_inv(ps, crt(ps, x))
\* returns x, a value of [0, product(ps)); crt([2,3,5], 7) is [1,1,2] and
\* crt_inv([2,3,5], [1,1,2]) is 7.
C1_CrtRoundTrip ==
  Returned("crt_conversion") =>
    /\ ~ret.x.panic
    /\ ret.x.val = args.x
    /\ ret.x.val >= 0 /\ ret.x.val < SeqProduct(args.ps)
    /\ (args.ps = <<2, 3, 5>> /\ args.x = 7) =>
         (ret.xs = <<1, 1, 2>> /\ ret.x.val = 7)

\* the concrete scenario of C1 has run, through a list of three primes
C1_Witness ==
  /\ Returned("crt_conversion")
  /\ args.ps = <<2, 3, 5>> /\ args.x = 7
  /\ ret.xs = <<1, 1, 2>>
  /\ ~ret.x.panic /\ ret.x.val = 7

\* C2: modular inverse.  For every m >= 2 and a >= 1 coprime to m (smaller
\* or larger than m), inv_ref(a, m) returns the one x of [0, m) with
\* a*x mod m = 1, and a raw coefficient below 0 is at least -m, so that one
\* addition of m normalises it.
C2_InvRefInverse ==
  (Returned("inv_ref") /\ args.m >= 2 /\ args.a >= 1 /\ GCD(args.a, args.m) = 1) =>
    /\ ~ret.panic
    /\ ret.val >= 0 /\ ret.val < args.m
    /\ (args.a * ret.val) % args.m = 1
    /\ \A y \in 0..(args.m - 1) : (args.a * y) % args.m = 1 => y = ret.val
    /\ LET raw == InvLoop(args.a, args.m, 0, 1) IN
       ~raw.panic /\ (raw.val < 0 => raw.val + args.m >= 0)

\* an a above m whose raw coefficient is negative has been inverted
C2_Witness ==
  /\ Returned("inv_ref")
  /\ args.m >= 2 /\ args.a > args.m /\ GCD(args.a, args.m) = 1
  /\ InvLoop(args.a, args.m, 0, 1).val < 0
  /\ ~ret.panic /\ (args.a * ret.val) % args.m = 1

RECURSIVE WeightedSum(_, _)
\* sum_i ds[i] * prod_{j<i} ms[j]
WeightedSum(ds, ms) ==
  IF ds = <<>> THEN 0 ELSE Head(ds) + Head(ms) * WeightedSum(Tail(ds), Tail(ms))

RECURSIVE StripTrailingZeros(_)
StripTrailingZeros(ds) ==
  IF ds # <<>> /\ ds[Len(ds)] = 0 THEN StripTrailingZeros(SubSeq(ds, 1, Len(ds) - 1)) ELSE ds

\* C3 as stated: for every modulus sequence ms and x below product(ms), the
\* padded vector has len(ms) digits and weighted sum x, and as_mixed_radix is
\* the padded vector without its trailing zeros, [0] for x = 0, so that its
\* last digit is not 0 when x > 0.
C3_MixedRadixAsStated ==
  (Returned("mixed_radix") /\ args.x < SeqProduct(args.ms)) =>
    /\ Len(ret.padded) = Len(args.ms)
    /\ WeightedSum(ret.padded, args.ms) = args.x
    /\ ret.ds = (IF args.x = 0 THEN <<0>> ELSE StripTrailingZeros(ret.padded))
    /\ (args.x > 0 => ret.ds[Len(ret.ds)] # 0)

\* C3 amended: the same, with [0] for x = 0 only when ms is not empty; against
\* the empty modulus sequence as_mixed_radix returns the empty vector.
C3_MixedRadix ==
  (Returned("mixed_radix") /\ args.x < SeqProduct(args.ms)) =>
    /\ Len(ret.padded) = Len(args.ms)
    /\ WeightedSum(ret.padded, args.ms) = args.x
    /\ ret.ds = (IF args.x > 0 THEN StripTrailingZeros(ret.padded)
                 ELSE IF args.ms = <<>> THEN <<>> ELSE <<0>>)
    /\ (args.x > 0 => ret.ds[Len(ret.ds)] # 0)

\* a value below the product of a non-uniform sequence has been decomposed
\* into fewer digits than there are moduli
C3_Witness ==
  /\ Returned("mixed_radix")
  /\ args.ms = <<2, 3, 5>> /\ args.x = 5
  /\ ret.ds = <<1, 2>> /\ ret.padded = <<1, 2, 0>>

\* C4: base-q round-trip.  For every base q of 2..112 and every x below q^n,
\* n = digits_per_u128(q), from_base_q(as_base_q(x, q), q) and
\* from_base_q(padded_base_q_128(x, q), q) both return x, no assertion
\* fires and q^n does not exceed 2^WordBits.
C4_BaseQRoundTrip ==
  /\ (Returned("base_q_conversion") /\ args.x < Pow(args.q, digits_per_u128(args.q))) =>
       /\ ~ret.y.panic
       /\ ~ret.z.panic /\ ret.z.val = args.x
       /\ Pow(args.q, digits_per_u128(args.q)) <= WordLimit
  /\ (Returned("padded_base_q_conversion")
        /\ args.x < Pow(args.q, digits_per_u128(args.q))) =>
       /\ Len(ret.y) = digits_per_u128(args.q)
       /\ ~ret.z.panic /\ ret.z.val = args.x

\* a value of several digits in a base that is no power of two went round
C4_Witness ==
  /\ Returned("base_q_conversion")
  /\ args.q = 3 /\ args.x = 77
  /\ ~ret.y.panic /\ Len(ret.y.val) = 4
  /\ ~ret.z.panic /\ ret.z.val = 77

\* C5: carry-correct addition.  For every base q, width n >= 1 with
\* q^n <= 2^WordBits and x, y below q^n, base_q_add of the n-digit vector of x
\* and the natural-length vector of y is an n-digit vector that decodes to
\* (x + y) mod q^n.
C5_CarryCorrectAddition ==
  Returned("base_q_addition") =>
    /\ Len(ret.xp) = args.n
    /\ ~ret.zp.panic /\ Len(ret.zp.val) = args.n
    /\ ~ret.z.panic /\ ret.z.val = (args.x + args.y) % Pow(args.q, args.n)

\* the carry went alone through positions above the end of y and out of the
\* top position
C5_Witness ==
  /\ Returned("base_q_addition")
  /\ args.n >= 3 /\ Len(ret.yp) < args.n
  /\ args.x + args.y >= Pow(args.q, args.n)
  /\ ~ret.z.panic /\ ret.z.val = args.x + args.y - Pow(args.q, args.n)

\* C6 as stated: base_q_add of the base-5 vectors [3] and [4] is [2, 1].
C6_AddExampleAsStated ==
  (Returned("base_q_addition") /\ args.q = 5 /\ ret.xp = <<3>> /\ ret.yp = <<4>>) =>
    (~ret.zp.panic /\ ret.zp.val = <<2, 1>>)

\* C6 amended: base_q_add of the base-5 vectors [3] and [4] is [2], the value
\* 7 mod 5, the carry out of the only position being discarded; [2, 1] is the
\* sum when x is padded to two digits, [3, 0].
C6_AddExample ==
  /\ (Returned("base_q_addition") /\ args.q = 5 /\ ret.xp = <<3>> /\ ret.yp = <<4>>) =>
       (~ret.zp.panic /\ ret.zp.val = <<2>> /\ ~ret.z.panic /\ ret.z.val = 2)
  /\ (Returned("base_q_addition") /\ args.q = 5 /\ ret.xp = <<3, 0>> /\ ret.yp = <<4>>) =>
       (~ret.zp.panic /\ ret.zp.val = <<2, 1>> /\ ~ret.z.panic /\ ret.z.val = 7)

\* [3] and [4] have been added in base 5
C6_Witness ==
  /\ Returned("base_q_addition")
  /\ args.q = 5 /\ ret.xp = <<3>> /\ ret.yp = <<4>>
  /\ ~ret.zp.panic /\ ret.zp.val = <<2>>

\* C7: in a build whose arithmetic wraps, from_base_q of a vector of digits
\* below q returns sum_i ds[i] * q^i when that fits the word and panics
\* otherwise, never a value reduced modulo 2^WordBits.
C7_OverflowNeverSilent ==
  (Returned("from_base_q") /\ ~ret.checks) =>
    LET v == WeightedSum(args.ds, Repeat(args.q, Len(args.ds))) IN
    IF v <= WordLimit - 1
    THEN ~ret.out.panic /\ ret.out.val = v
    ELSE ret.out.panic

\* C8: the big-integer decomposition returns the digit vectors of the
\* fixed-width one, and u16_from_bigint(d) returns d.
C8_BigintSameAsFixedWidth ==
  /\ Returned("mixed_radix_bigint") =>
       /\ ~ret.ds.panic /\ ret.ds.val = as_mixed_radix(args.x, args.ms)
       /\ ~ret.padded.panic /\ ret.padded.val = padded_mixed_radix(args.x, args.ms)
  /\ Returned("u16_from_bigint") =>
       (~ret.out.panic /\ ret.out.val = args.bi)

RECURSIVE SetProduct(_)
SetProduct(S) == IF S = {} THEN 1 ELSE LET p == CHOOSE e \in S : TRUE IN p * SetProduct(S \ {p})

\* the elements of a set of numbers in ascending order
Ascending(S) ==
  CHOOSE s \in [1..Cardinality(S) -> S] :
    \A i, j \in 1..Cardinality(S) : i < j => s[i] < s[j]

\* C9: for every subset S of PRIMES with product q, the empty one included,
\* factor(q) returns the elements of S in ascending order, each once.
C9_FactorSquareFree ==
  Returned("factor") =>
    \A S \in SUBSET {p \in PrimeSet : args.inp # 0 /\ args.inp % p = 0} :
      SetProduct(S) = args.inp => (~ret.panic /\ ret.val = Ascending(S))

\* the product of four table primes has been factored
C9_Witness ==
  /\ Returned("factor")
  /\ args.inp = 2 * 3 * 5 * 7
  /\ ~ret.panic /\ ret.val = <<2, 3, 5, 7>>

IsPrime(r) == r >= 2 /\ \A d \in 2..(r - 1) : r % d # 0

\* C10: factor(x) panics for x = 0, for x divisible by the square of a table
\* prime and for x with a prime factor outside the table.
C10_NonFactorablePanics ==
  (Returned("factor") /\
     \/ args.inp = 0
     \/ \E p \in PrimeSet : args.inp % (p * p) = 0
     \/ \E r \in 2..args.inp : IsPrime(r) /\ r \notin PrimeSet /\ args.inp % r = 0)
  => ret.panic

\* 18 = 2 * 3^2 has been refused
C10_Witness ==
  /\ Returned("factor")
  /\ args.inp = 18
  /\ ret.panic

\* the moduli that have a table: 2 and the primes of PRIMES_SKIP_2
TableModuli == {2} \cup Range(PRIMES_SKIP_2)

\* C11: for every index i of 0..28, p = PRIMES_SKIP_2[i], g = PRIMITIVE_ROOTS[i]
\* and x of [1, p): powm(g, dlog[x], p) returns x without a 16-bit overflow
\* and exp[dlog[x]] is x; for p = 2 and every p of PRIMES_SKIP_2 both tables
\* have p elements and exp[dlog[x]] = x for every x of [1, p).
C11_DiscreteLogTables ==
  /\ (Returned("discrete_log") /\ args.x >= 1) =>
       /\ ~ret.d.panic
       /\ ~ret.z.panic /\ ret.z.val = args.x
       /\ ~ret.e.panic /\ ret.e.val = args.x
  /\ (Returned("truth_tables") /\ args.modulus \in TableModuli) =>
       /\ LenOf(ret.dlog) = args.modulus
       /\ LenOf(ret.exp) = args.modulus
       /\ \A x \in 1..(args.modulus - 1) :
            LET d == IndexOf(ret.dlog, x) IN
            /\ ~d.panic
            /\ IndexOf(ret.exp, d.val) = Ok(x)

\* the largest element of the largest prime went through powm with overflow
\* checks on, along an exponent with odd and even steps
C11_Witness ==
  /\ Returned("discrete_log")
  /\ args.i = NPRIMES - 1 /\ args.x = 112
  /\ ret.checks /\ ret.q = 113 /\ ret.g = 3
  /\ ~ret.d.panic /\ ret.d.val = 56
  /\ ~ret.z.panic /\ ret.z.val = 112

\* C12: for every base q and count n >= 2 the sum n*(q-1) of n maximal digits
\* has exactly num_carry_digits_to_add_n_digits(q, n) base-q digits, and so
\* never more.
C12_CarryDepth ==
  Returned("max_carry_digits") =>
    (Len(ret.ds) = ret.carry /\ Len(ret.ds) <= ret.carry)

RECURSIVE PrefixProduct(_, _)
\* the exact product of the first k elements of ps, as a natural number
PrefixProduct(ps, k) == IF k = 0 THEN <<1>> ELSE BigMul(PrefixProduct(ps, k - 1), ps[k])

\* the prefix lengths k >= 1 of ps whose product is at least 2^nbits
EnoughPrefixes(ps, nbits) ==
  {k \in 1..Len(ps) : BigBitLen(PrefixProduct(ps, k)) > nbits}

\* C13: for every nbits of 0..127 and both prime tables the search returns the
\* product of the shortest prefix whose product is at least 2^nbits, it fails
\* only by the table-exhausted assertion, and the running product never
\* overflows 128 bits.
C13_ModulusSearch ==
  ((Returned("modulus_with_width") \/ Returned("modulus_with_width_skip2"))
     /\ args.nbits < U128Bits) =>
    LET enough == EnoughPrefixes(ret.ps, args.nbits) IN
    IF enough = {}
    THEN ret.out.panic /\ ret.out.why = "exhausted"
    ELSE LET k == CHOOSE j \in enough : \A h \in enough : j <= h IN
         /\ ~ret.out.panic
         /\ ret.out.val = PrefixProduct(ret.ps, k)
         /\ BigBitLen(ret.out.val) <= U128Bits

\* the carry out of position j when ys is added to xs in base q: 1 when the
\* first j digits of xs plus the first j digits of ys reach q^j, 0 for j = 0
CarryOut(xs, ys, q, j) ==
  LET k == Min(j, Len(ys)) IN
  IF WeightedSum(SubSeq(xs, 1, j), Repeat(q, j))
       + WeightedSum(SubSeq(ys, 1, k), Repeat(q, k)) >= Pow(q, j)
  THEN 1 ELSE 0

\* the positions, from the end of ys on, where the carry has resolved to 0
ResolvedAt(xs, ys, q) ==
  {j \in Len(ys)..Len(xs) : CarryOut(xs, ys, q, j) = 0}

\* C14: from digit vectors xs, ys of base q with digits below q and
\* len(ys) <= len(xs), after any sequence of base_q_add_eq(xs, ys, q) calls
\* every digit of xs is below q, len(xs), ys and q are unchanged, and each
\* call left every position of xs above a position where the carry resolved
\* to 0 as it was.
C14_DigitBound ==
  /\ (fn = "base_q_add_eq" /\ Len(args.ys) <= Len(args.xs)) =>
       \A j \in 1..Len(args.xs) : args.xs[j] >= 0 /\ args.xs[j] < args.q
  /\ (Returned("base_q_add_eq") /\ Len(args.ys) <= Len(args.xs)) =>
       /\ ~ret.panic
       /\ args.q = ret.val.q
       /\ args.ys = ret.val.ys
       /\ Len(args.xs) = Len(ret.val.xs)
       /\ \A r \in ResolvedAt(ret.val.xs, ret.val.ys, ret.val.q) :
            \A j \in (r + 1)..Len(args.xs) : args.xs[j] = ret.val.xs[j]

\* a call carried alone through one position above the end of ys, resolved
\* there, and left the digit above it
C14_Witness ==
  /\ Returned("base_q_add_eq")
  /\ ~ret.panic
  /\ ret.val.q = 3 /\ ret.val.ys = <<1>> /\ ret.val.xs = <<2, 0, 2>>
  /\ args.xs = <<0, 1, 2>>

=============================================================================
